---- MODULE Spec2Model ----
(***************************************************************************)
(* Model of blast.py: a query FASTA file is split into record-aligned      *)
(* shards, one worker process per shard runs the alignment tool, and the   *)
(* per-shard outputs are concatenated behind one header line.              *)
(*                                                                         *)
(* Byte offsets are 0-based as in the source: the byte at offset p of a    *)
(* file with content c is c[p + 1].  A path is a tuple: <<"tmp", k>> is    *)
(* the k-th name mkstemp can hand out, <<"tmp", k, e>> is a database file  *)
(* whose name extends that prefix, <<"query", 0>>, <<"target", 0>> and     *)
(* <<"output", 0>> are the user's paths.                                   *)
(***************************************************************************)
EXTENDS Integers, Sequences, FiniteSets, TLC

\* ---------------------------------------------------------------- bounds
MaxRecords == 3      \* most records of a query file of the whole-run specification
MaxSplitLen == 7     \* longest query file of the sharding specification
MaxShortLen == 2     \* longest query file of the fair whole-run specification
MaxThreads == 3      \* largest --threads value
MaxRows == 1         \* most rows one alignment run writes
BlockSize == 1       \* combine's read block (1024 ** 3 in the source), scaled to the model's files

\* ------------------------------------------------------------ vocabulary
Bytes == {">", "\n", "a"}

Functions == {"blastn", "blastp", "blastx", "tblastn", "tblastx"}

Tools == {"makeblastdb", "blastn", "blastp", "blastx", "tblastn", "tblastx"}

DbExts == {".nhr", ".nin"}

QueryPath == <<"query", 0>>

TargetPath == <<"target", 0>>

OutputPath == <<"output", 0>>

StalePath == <<"tmp", 2>>

Main == 0

HeaderLine == <<"header", 0>>

TempCount == 2 * MaxThreads + 2

FilesUpTo(maxlen) == UNION {[1..k -> Bytes] : k \in 0..maxlen}

\* A file of r three-byte records, after some bytes that belong to no record.
FastaFile(leading, r) ==
    leading \o [j \in 1..(3 * r) |-> IF j % 3 = 1 THEN ">" ELSE IF j % 3 = 2 THEN "a" ELSE "\n"]

FastaFiles(maxrecords) ==
    {FastaFile(leading, r) : leading \in {<<>>, <<"a", "\n">>}, r \in 0..maxrecords}

VARIABLES
    pc,                   \* position of the main process
    fs,                   \* the working directory: path -> content, for the files that exist
    function,             \* parameters.function
    threads,              \* parameters.threads
    target,               \* parameters.target
    makeblastdb_marker,   \* makeblastdb_marker
    command,              \* command
    position_list,        \* split_fasta: position_list
    input_pos,            \* split_fasta: file position of open_input
    step,                 \* split_fasta: step
    position_list_index,  \* split_fasta: position_list_index
    output_file,          \* split_fasta: output_file of the current iteration
    yielded,              \* the shard paths split_fasta has yielded, in order
    output_list,          \* output_list
    process_list,         \* process_list: the args of each Process
    state,                \* per process: "created", "started", "tool", "exited"
    returncode,           \* per process: run_process.returncode (-1 before the tool exits)
    exitcode,             \* per process: Process.exitcode (-1 while it has not exited)
    wrote,                \* per process: what its alignment run left in its output file
    out_of_order,         \* a process has exited before one that precedes it in process_list
    start_index,          \* the start loop's position in process_list
    join_index,           \* the join loop's position in process_list
    combine_index,        \* combine: position in input_files
    combine_inputs,       \* content of each combine input when combine was entered
    wopen,                \* <<process, path>>: the process holds the path open for writing
    ropen,                \* <<process, path>>: the process holds the path open for reading
    touched,              \* <<worker, path>>: the worker has opened, written or removed the path
    main_exit,            \* exit code of the main process (-1 while it runs)
    failure,              \* the fatal error that ended the main process, or "none"
    missing_tools,        \* the tool paths lines 165-170 found unset or not executable
    makeblastdb_returncodes, \* the return code of each makeblastdb run, in order
    allocated             \* the paths make_file has returned, in order

vars == <<pc, fs, function, threads, target, makeblastdb_marker, command,
          position_list, input_pos, step, position_list_index, output_file,
          yielded, output_list, process_list, state, returncode, exitcode,
          wrote, out_of_order, start_index, join_index, combine_index, combine_inputs,
          wopen, ropen, touched, main_exit, failure,
          missing_tools, makeblastdb_returncodes, allocated>>

splitVars == <<position_list, input_pos, step, position_list_index, output_file, yielded>>

procVars == <<state, returncode, exitcode, wrote, out_of_order>>

paramVars == <<function, threads, target, makeblastdb_marker, command>>

\* ------------------------------------------------------------ file system
Exists(dir, path) == path \in DOMAIN dir

WriteFile(dir, path, content) == (path :> content) @@ dir

RemoveFile(dir, path) == [p \in (DOMAIN dir) \ {path} |-> dir[p]]

\* A match of the whole path only.
SamePath(path, prefix) == path = prefix

StartsWith(path, prefix) ==
    /\ Len(path) >= Len(prefix)
    /\ SubSeq(path, 1, Len(prefix)) = prefix

\* A name numbered after the temporary files the directory holds, whether
\* or not a file of that name exists.
MkstempNameByCount(dir) ==
    <<"tmp", 1 + Cardinality({p \in DOMAIN dir : p[1] = "tmp" /\ Len(p) = 2})>>

\* mkstemp: a name that no file of the directory has (O_EXCL); names are
\* interchangeable, the model takes the first free one.
MkstempName(dir) ==
    <<"tmp", CHOOSE k \in 1..TempCount :
                /\ ~Exists(dir, <<"tmp", k>>)
                /\ \A j \in 1..(k - 1) : Exists(dir, <<"tmp", j>>)>>

\* make_file: the new path and the directory with the empty file created.
make_file(dir) ==
    LET file_name == MkstempName(dir)
    IN  [file_name |-> file_name, fs |-> WriteFile(dir, file_name, <<>>)]

\* ------------------------------------------------------------ split_fasta
RECURSIVE LineEnd(_, _)
LineEnd(content, pos) ==
    IF pos >= Len(content) THEN Len(content)
    ELSE IF content[pos + 1] = "\n" THEN pos + 1
    ELSE LineEnd(content, pos + 1)

\* open_input.readline() at file position pos: through the next newline, or to end of file.
readline(content, pos) == SubSeq(content, pos + 1, LineEnd(content, pos))

\* open_input.read(size) at file position pos.
read(content, pos, size) ==
    SubSeq(content, pos + 1, IF pos + size > Len(content) THEN Len(content) ELSE pos + size)

startswith(line, byte) == Len(line) >= 1 /\ line[1] = byte

\* line.startswith(b'>') is the test of a record's first line.
IsRecordLine(line) == startswith(line, ">")

\* A scan that records the position after the line instead of its start.
RecordOffsetAfterLine(tell, line) == tell

\* The offset appended for a record line: open_input.tell() - len(line).
RecordOffset(tell, line) == tell - Len(line)

\* ceil(a / b) for a >= 0, b >= 1.
ceil(a, b) == (a + b - 1) \div b

\* A step rounded down (but never 0) instead of up.
SplitStepFloor(plist, n) ==
    IF (Len(plist) - 1) \div n = 0 THEN 1 ELSE (Len(plist) - 1) \div n

SplitStep(plist, n) == ceil(Len(plist) - 1, n)

\* list[i : j] of Python, i and j >= 0.
Slice(list, i, j) == SubSeq(list, i + 1, IF j > Len(list) THEN Len(list) ELSE j)

\* A window one offset short: position_list[index : index + step].
PositionsShort(plist, index, stp) == Slice(plist, index, index + stp)

\* position_list[position_list_index : position_list_index + step + 1]
Positions(plist, index, stp) == Slice(plist, index, index + stp + 1)

\* A loop that stops only on an empty window.
SplitStopsOnEmpty(positions) == Len(positions) < 1

\* The loop of lines 113-116 stops when len(positions) <= 1.
SplitStops(positions) == Len(positions) <= 1

\* A shard that loses its last byte.
ShardSizeShort(positions) == positions[Len(positions)] - positions[1] - 1

\* positions[-1] - positions[0]
ShardSize(positions) == positions[Len(positions)] - positions[1]

NextIndex(index, stp) == index + stp

\* One iteration of the scanning loop (lines 104-110); on end of file the
\* sentinel is appended and step and position_list_index are set (111-112).
ScanLine ==
    /\ pc = "scan"
    /\ UNCHANGED <<missing_tools, makeblastdb_returncodes, allocated>>
    /\ LET line == readline(fs[QueryPath], input_pos)
           tell == input_pos + Len(line)
           marked == IF IsRecordLine(line)
                     THEN Append(position_list, RecordOffset(tell, line))
                     ELSE position_list
       IN  /\ input_pos' = tell
           /\ IF line = <<>>
              THEN /\ position_list' = Append(marked, tell)
                   /\ step' = SplitStep(position_list', threads)
                   /\ position_list_index' = 0
                   /\ pc' = "split"
              ELSE /\ position_list' = marked
                   /\ UNCHANGED <<step, position_list_index>>
                   /\ pc' = "scan"
    /\ UNCHANGED <<fs, paramVars, output_file, yielded, output_list, process_list,
                   procVars, start_index, join_index, combine_index, combine_inputs,
                   wopen, ropen, touched, main_exit, failure>>

\* Lines 114-119: the window holds a record, so a shard file is allocated,
\* the input is positioned at the shard's first byte and the shard is opened.
SplitOpen ==
    /\ pc = "split"
    /\ UNCHANGED <<missing_tools, makeblastdb_returncodes>>
    /\ LET positions == Positions(position_list, position_list_index, step)
           made == make_file(fs)
       IN  /\ ~SplitStops(positions)
           /\ output_file' = made.file_name
           /\ fs' = made.fs
           /\ input_pos' = positions[1]
           /\ wopen' = wopen \cup {<<Main, made.file_name>>}
           /\ allocated' = Append(allocated, made.file_name)
    /\ pc' = "write"
    /\ UNCHANGED <<paramVars, position_list, step, position_list_index, yielded,
                   output_list, process_list, procVars, start_index, join_index,
                   combine_index, combine_inputs, ropen, touched, main_exit, failure>>

\* Lines 120-122: the shard's byte range is written, the shard is closed and yielded.
SplitWrite ==
    /\ pc = "write"
    /\ UNCHANGED <<missing_tools, makeblastdb_returncodes, allocated>>
    /\ LET positions == Positions(position_list, position_list_index, step)
           data == read(fs[QueryPath], input_pos, ShardSize(positions))
       IN  /\ fs' = WriteFile(fs, output_file, data)
           /\ input_pos' = input_pos + Len(data)
    /\ wopen' = wopen \ {<<Main, output_file>>}
    /\ yielded' = Append(yielded, output_file)
    /\ pc' = "body"
    /\ UNCHANGED <<paramVars, position_list, step, position_list_index, output_file,
                   output_list, process_list, procVars, start_index, join_index,
                   combine_index, combine_inputs, ropen, touched, main_exit, failure>>

\* Args that give every process the first output path.
ProcessArgsFirstOutput(query_file, outputs) ==
    [query_file |-> query_file, output_file |-> outputs[1]]

\* The args of the Process of one shard (lines 203-206).
ProcessArgs(query_file, outputs) ==
    [query_file |-> query_file, output_file |-> outputs[Len(outputs)]]

\* An output list built by prepending.
PrependOutput(outputs, file_name) == <<file_name>> \o outputs

\* output_list.append(make_file())
AppendOutput(outputs, file_name) == Append(outputs, file_name)

\* A Process that is started as soon as it is created.
StartedAtOnce == "started"

\* Process(...) creates a process object and does not start it (line 203).
NewProcess == "created"

\* The body of the for loop over the shards (lines 201-207).
ForBody ==
    /\ pc = "body"
    /\ UNCHANGED <<missing_tools, makeblastdb_returncodes>>
    /\ LET made == make_file(fs)
           query_file == yielded[Len(yielded)]
       IN  /\ fs' = made.fs
           /\ output_list' = AppendOutput(output_list, made.file_name)
           /\ process_list' = Append(process_list, ProcessArgs(query_file, output_list'))
           /\ allocated' = Append(allocated, made.file_name)
    /\ state' = Append(state, NewProcess)
    /\ returncode' = Append(returncode, -1)
    /\ exitcode' = Append(exitcode, -1)
    /\ wrote' = Append(wrote, <<>>)
    /\ pc' = "resume"
    /\ UNCHANGED <<paramVars, splitVars, out_of_order, start_index, join_index, combine_index,
                   combine_inputs, wopen, ropen, touched, main_exit, failure>>

\* Line 123: the generator is resumed for the next shard.
SplitResume ==
    /\ pc = "resume"
    /\ UNCHANGED <<missing_tools, makeblastdb_returncodes, allocated>>
    /\ position_list_index' = NextIndex(position_list_index, step)
    /\ pc' = "split"
    /\ UNCHANGED <<fs, paramVars, position_list, input_pos, step, output_file, yielded,
                   output_list, process_list, procVars, start_index, join_index,
                   combine_index, combine_inputs, wopen, ropen, touched, main_exit, failure>>

\* Lines 115-116, 124-125: no whole record is left, the generator returns.
SplitReturn ==
    /\ pc = "split"
    /\ UNCHANGED <<missing_tools, makeblastdb_returncodes, allocated>>
    /\ SplitStops(Positions(position_list, position_list_index, step))
    /\ pc' = "start"
    /\ UNCHANGED <<fs, paramVars, splitVars, output_list, process_list, procVars,
                   start_index, join_index, combine_index, combine_inputs,
                   wopen, ropen, touched, main_exit, failure>>

\* ------------------------------------------------- sharding specification
\* The main process at line 200, for every query file and thread count.
InitSplit ==
    /\ pc = "scan"
    /\ \E content \in FilesUpTo(MaxSplitLen) : fs = (QueryPath :> content)
    /\ function = "blastn"
    /\ threads \in 1..MaxThreads
    /\ target = TargetPath
    /\ makeblastdb_marker = FALSE
    /\ command = <<>>
    /\ position_list = <<>>
    /\ input_pos = 0
    /\ step = 0
    /\ position_list_index = 0
    /\ output_file = QueryPath
    /\ yielded = <<>>
    /\ output_list = <<>>
    /\ process_list = <<>>
    /\ state = <<>>
    /\ returncode = <<>>
    /\ exitcode = <<>>
    /\ wrote = <<>>
    /\ out_of_order = FALSE
    /\ start_index = 0
    /\ join_index = 0
    /\ combine_index = 0
    /\ combine_inputs = <<>>
    /\ wopen = {}
    /\ ropen = {}
    /\ touched = {}
    /\ main_exit = -1
    /\ failure = "none"
    /\ missing_tools = {}
    /\ makeblastdb_returncodes = <<>>
    /\ allocated = <<>>

NextSplit ==
    \/ ScanLine
    \/ SplitOpen
    \/ SplitWrite
    \/ ForBody
    \/ SplitResume
    \/ SplitReturn

SpecSplit == InitSplit /\ [][NextSplit]_vars

\* --------------------------------------------------------- the whole run
\* A check of makeblastdb alone.
MakeblastdbExecutable(missing) == "makeblastdb" \notin missing

\* Lines 165-170: each of the six tool paths must be set and executable.
ToolsExecutable(missing) == missing = {}

CheckTools ==
    /\ pc = "tools"
    /\ UNCHANGED <<makeblastdb_returncodes, allocated>>
    /\ \E missing \in SUBSET Tools :
          /\ missing_tools' = missing
          /\ IF ToolsExecutable(missing)
             THEN /\ pc' = "target"
                  /\ UNCHANGED <<main_exit, failure>>
             ELSE /\ pc' = "failed"
                  /\ main_exit' = 1
                  /\ failure' = "ToolMissing"
    /\ UNCHANGED <<fs, paramVars, splitVars, output_list, process_list, procVars,
                   start_index, join_index, combine_index, combine_inputs,
                   wopen, ropen, touched>>

\* The files makeblastdb leaves for -out prefix when it exits with returncode.
makeblastdb_files(prefix, rc) ==
    IF rc = 0 THEN {prefix \o <<e>> : e \in DbExts} ELSE {}

\* run_makeblastdb without the assertion on the return code.
run_makeblastdb_unchecked(dir, rc) ==
    LET made == make_file(dir)
        created == makeblastdb_files(made.file_name, rc)
    IN  [output_blastdb |-> made.file_name,
         fs |-> [p \in DOMAIN made.fs \cup created |->
                    IF p \in created THEN <<>> ELSE made.fs[p]],
         ok |-> TRUE]

\* run_makeblastdb (lines 91-98) with the tool exiting with rc.
run_makeblastdb(dir, rc) ==
    LET made == make_file(dir)
        created == makeblastdb_files(made.file_name, rc)
    IN  [output_blastdb |-> made.file_name,
         fs |-> [p \in DOMAIN made.fs \cup created |->
                    IF p \in created THEN <<>> ELSE made.fs[p]],
         ok |-> rc = 0]

\* Lines 172-179: a readable target is a FASTA file and is indexed first.
PrepareTarget ==
    /\ pc = "target"
    /\ UNCHANGED <<missing_tools>>
    /\ IF Exists(fs, target)
       THEN \E rc \in {0, 1} :
               LET built == run_makeblastdb(fs, rc)
               IN  /\ fs' = built.fs
                   /\ makeblastdb_returncodes' = Append(makeblastdb_returncodes, rc)
                   /\ allocated' = Append(allocated, built.output_blastdb)
                   /\ makeblastdb_marker' = TRUE
                   /\ IF built.ok
                      THEN /\ target' = built.output_blastdb
                           /\ pc' = "command"
                           /\ UNCHANGED <<main_exit, failure>>
                      ELSE /\ pc' = "failed"
                           /\ main_exit' = 1
                           /\ failure' = "makeblastdb"
                           /\ UNCHANGED target
       ELSE /\ makeblastdb_marker' = FALSE
            /\ pc' = "command"
            /\ UNCHANGED <<fs, target, main_exit, failure, makeblastdb_returncodes, allocated>>
    /\ UNCHANGED <<function, threads, command, splitVars, output_list, process_list,
                   procVars, start_index, join_index, combine_index, combine_inputs,
                   wopen, ropen, touched>>

\* Lines 187-194: the options each function adds; the last branch subscripts
\* the argparse Namespace, which raises TypeError, and it is reached by every
\* function the first three branches do not take.
CommandOptions(f) ==
    IF f = "blastn" THEN [ok |-> TRUE, options |-> <<"-strand">>]
    ELSE IF f = "blastx" THEN [ok |-> TRUE, options |-> <<"-strand", "-query_gencode">>]
    ELSE IF f = "tblastx"
         THEN [ok |-> TRUE, options |-> <<"-strand", "-db_gencode", "-query_gencode">>]
    ELSE [ok |-> FALSE, options |-> <<>>]

\* Lines 181-194.
BuildCommand ==
    /\ pc = "command"
    /\ UNCHANGED <<missing_tools, makeblastdb_returncodes, allocated>>
    /\ LET built == CommandOptions(function)
       IN  IF built.ok
           THEN /\ command' = <<function, "-db", "-num_threads", "-outfmt">> \o built.options
                /\ pc' = "scan"
                /\ UNCHANGED <<main_exit, failure>>
           ELSE /\ pc' = "failed"
                /\ main_exit' = 1
                /\ failure' = "TypeError"
                /\ UNCHANGED command
    /\ UNCHANGED <<fs, function, threads, target, makeblastdb_marker, splitVars,
                   output_list, process_list, procVars, start_index, join_index,
                   combine_index, combine_inputs, wopen, ropen, touched>>

SetAt(seq, i, v) == [seq EXCEPT ![i] = v]

\* Lines 208-209: one iteration of the start loop.
StartProcess ==
    /\ pc = "start"
    /\ UNCHANGED <<missing_tools, makeblastdb_returncodes, allocated>>
    /\ start_index < Len(process_list)
    /\ state' = SetAt(state, start_index + 1, "started")
    /\ start_index' = start_index + 1
    /\ UNCHANGED <<pc, fs, paramVars, splitVars, output_list, process_list, returncode,
                   exitcode, wrote, out_of_order, join_index, combine_index, combine_inputs,
                   wopen, ropen, touched, main_exit, failure>>

\* The start loop is exhausted; the join loop begins (line 210).
StartLoopEnd ==
    /\ pc = "start"
    /\ UNCHANGED <<missing_tools, makeblastdb_returncodes, allocated>>
    /\ start_index = Len(process_list)
    /\ pc' = "join"
    /\ UNCHANGED <<fs, paramVars, splitVars, output_list, process_list, procVars,
                   start_index, join_index, combine_index, combine_inputs,
                   wopen, ropen, touched, main_exit, failure>>

\* A join that returns without waiting.
JoinReturnsAtOnce(process_state) == TRUE

\* process.join() returns once the process has exited; its exitcode is not read.
JoinReturns(process_state) == process_state = "exited"

\* Lines 210-211: one iteration of the join loop.
JoinProcess ==
    /\ pc = "join"
    /\ UNCHANGED <<missing_tools, makeblastdb_returncodes, allocated>>
    /\ join_index < Len(process_list)
    /\ JoinReturns(state[join_index + 1])
    /\ join_index' = join_index + 1
    /\ UNCHANGED <<pc, fs, paramVars, splitVars, output_list, process_list, procVars,
                   start_index, combine_index, combine_inputs,
                   wopen, ropen, touched, main_exit, failure>>

\* The join loop is exhausted (line 212).
JoinLoopEnd ==
    /\ pc = "join"
    /\ UNCHANGED <<missing_tools, makeblastdb_returncodes, allocated>>
    /\ join_index = Len(process_list)
    /\ pc' = "cleanup"
    /\ UNCHANGED <<fs, paramVars, splitVars, output_list, process_list, procVars,
                   start_index, join_index, combine_index, combine_inputs,
                   wopen, ropen, touched, main_exit, failure>>

\* A scan that matches no entry.
remove_nothing(dir, blastdb_prefix) == dir

\* remove_blastdb (lines 138-144): every file whose path starts with the prefix.
remove_blastdb(dir, blastdb_prefix) ==
    [p \in {q \in DOMAIN dir : ~StartsWith(q, blastdb_prefix)} |-> dir[p]]

\* Lines 214-215.
Cleanup ==
    /\ pc = "cleanup"
    /\ UNCHANGED <<missing_tools, makeblastdb_returncodes, allocated>>
    /\ fs' = IF makeblastdb_marker THEN remove_blastdb(fs, target) ELSE fs
    /\ pc' = "combine"
    /\ UNCHANGED <<paramVars, splitVars, output_list, process_list, procVars,
                   start_index, join_index, combine_index, combine_inputs,
                   wopen, ropen, touched, main_exit, failure>>

\* combine, lines 148-150: the output is opened and the header written.
CombineHeader(dir, path) == WriteFile(dir, path, <<HeaderLine>>)

CombineOpen ==
    /\ pc = "combine"
    /\ UNCHANGED <<missing_tools, makeblastdb_returncodes, allocated>>
    /\ fs' = CombineHeader(fs, OutputPath)
    /\ wopen' = wopen \cup {<<Main, OutputPath>>}
    /\ combine_index' = 0
    /\ combine_inputs' = [i \in 1..Len(output_list) |-> fs[output_list[i]]]
    /\ pc' = "combine_loop"
    /\ UNCHANGED <<paramVars, splitVars, output_list, process_list, procVars,
                   start_index, join_index, ropen, touched, main_exit, failure>>

\* combine, line 152: the next input is opened.
CombineInputOpen ==
    /\ pc = "combine_loop"
    /\ UNCHANGED <<missing_tools, makeblastdb_returncodes, allocated>>
    /\ combine_index < Len(output_list)
    /\ ropen' = ropen \cup {<<Main, output_list[combine_index + 1]>>}
    /\ pc' = "combine_copy"
    /\ UNCHANGED <<fs, paramVars, splitVars, output_list, process_list, procVars,
                   start_index, join_index, combine_index, combine_inputs,
                   wopen, touched, main_exit, failure>>

\* A copy that reads one block only.
CopyOneBlock(source, pos, destination) == destination \o read(source, pos, BlockSize)

\* combine, lines 153-155: blocks are copied until a read returns nothing.
RECURSIVE CopyBlocks(_, _, _)
CopyBlocks(source, pos, destination) ==
    LET block == read(source, pos, BlockSize)
    IN  IF Len(block) = 0 THEN destination
        ELSE CopyBlocks(source, pos + Len(block), destination \o block)

\* combine, lines 153-157 for one input: copy, close, remove.
CombineOne(dir, input_file, path) ==
    RemoveFile(WriteFile(dir, path, CopyBlocks(dir[input_file], 0, dir[path])), input_file)

CombineCopy ==
    /\ pc = "combine_copy"
    /\ UNCHANGED <<missing_tools, makeblastdb_returncodes, allocated>>
    /\ LET input_file == output_list[combine_index + 1]
       IN  /\ fs' = CombineOne(fs, input_file, OutputPath)
           /\ ropen' = ropen \ {<<Main, input_file>>}
    /\ combine_index' = combine_index + 1
    /\ pc' = "combine_loop"
    /\ UNCHANGED <<paramVars, splitVars, output_list, process_list, procVars,
                   start_index, join_index, combine_inputs, wopen, touched,
                   main_exit, failure>>

\* combine, lines 158-159, and line 219: the run has finished.
CombineClose ==
    /\ pc = "combine_loop"
    /\ UNCHANGED <<missing_tools, makeblastdb_returncodes, allocated>>
    /\ combine_index = Len(output_list)
    /\ wopen' = wopen \ {<<Main, OutputPath>>}
    /\ pc' = "done"
    /\ main_exit' = 0
    /\ UNCHANGED <<fs, paramVars, splitVars, output_list, process_list, procVars,
                   start_index, join_index, combine_index, combine_inputs,
                   ropen, touched, failure>>

\* ------------------------------------------------------- run_blast_thread
\* The alignment tool's output for its query file: each hit is a row of
\* fields and a line end, carrying the name of the query file it was run on.
Rows(query_file, k) ==
    [j \in 1..(2 * k) |-> IF j % 2 = 1 THEN <<"row", query_file[2]>>
                                      ELSE <<"eol", query_file[2]>>]

\* Lines 129-130: the worker starts the alignment tool, which opens its
\* query for reading and its output for writing.
RunTool(i) ==
    /\ state[i] = "started"
    /\ UNCHANGED <<missing_tools, makeblastdb_returncodes, allocated>>
    /\ state' = SetAt(state, i, "tool")
    /\ ropen' = ropen \cup {<<i, process_list[i].query_file>>}
    /\ wopen' = wopen \cup {<<i, process_list[i].output_file>>}
    /\ touched' = touched \cup {<<i, process_list[i].query_file>>,
                                <<i, process_list[i].output_file>>}
    /\ UNCHANGED <<pc, fs, paramVars, splitVars, output_list, process_list, returncode,
                   exitcode, wrote, out_of_order, start_index, join_index, combine_index,
                   combine_inputs, main_exit, failure>>

\* No assertion on the return code.
AssertNothing(rc) == TRUE

\* Line 133: the assertion holds iff the tool returned 0.
AssertReturncode(rc) == rc = 0

\* Lines 133-135 after the tool returned rc: on success the shard is removed
\* and the process exits 0; the AssertionError ends it with exit code 1.
FinishWorker(dir, input_file, rc) ==
    IF AssertReturncode(rc)
    THEN [fs |-> RemoveFile(dir, input_file), exitcode |-> 0]
    ELSE [fs |-> dir, exitcode |-> 1]

\* Lines 129-135: the tool exits with some return code, having written
\* some rows, and the worker runs to its end.
ToolReturns(i) ==
    /\ state[i] = "tool"
    /\ UNCHANGED <<missing_tools, makeblastdb_returncodes, allocated>>
    /\ \E rc \in {0, 1}, k \in 0..MaxRows :
          LET args == process_list[i]
              output == Rows(args.query_file, k)
              end == FinishWorker(WriteFile(fs, args.output_file, output),
                                  args.query_file, rc)
          IN  /\ fs' = end.fs
              /\ wrote' = SetAt(wrote, i, output)
              /\ returncode' = SetAt(returncode, i, rc)
              /\ exitcode' = SetAt(exitcode, i, end.exitcode)
    /\ state' = SetAt(state, i, "exited")
    /\ out_of_order' = (out_of_order \/ \E j \in 1..(i - 1) : state[j] # "exited")
    /\ ropen' = ropen \ {<<i, process_list[i].query_file>>}
    /\ wopen' = wopen \ {<<i, process_list[i].output_file>>}
    /\ touched' = touched \cup {<<i, process_list[i].query_file>>}
    /\ UNCHANGED <<pc, paramVars, splitVars, output_list, process_list,
                   start_index, join_index, combine_index, combine_inputs,
                   main_exit, failure>>

Worker(i) == RunTool(i) \/ ToolReturns(i)

\* The working directory the run starts in: the query, the target (a FASTA
\* file, or the files of a database built earlier, whose name no file has)
\* and possibly a file that an earlier run left under a temporary name.
Directory(content, fasta_target, stale) ==
    LET user == IF fasta_target
                THEN (QueryPath :> content) @@ (TargetPath :> <<">", "a">>)
                ELSE (QueryPath :> content)
                     @@ [p \in {TargetPath \o <<e>> : e \in DbExts} |-> <<>>]
    IN  IF stale THEN user @@ (StalePath :> <<"a">>) ELSE user

\* The state after argument parsing (line 163), the query being one of files
\* and the directory holding a stale temporary file or not, as stales allows.
InitFrom(files, stales) ==
    /\ pc = "tools"
    /\ \E content \in files, fasta_target \in BOOLEAN, stale \in stales :
          fs = Directory(content, fasta_target, stale)
    /\ function \in Functions
    /\ threads \in 1..MaxThreads
    /\ target = TargetPath
    /\ makeblastdb_marker = FALSE
    /\ command = <<>>
    /\ position_list = <<>>
    /\ input_pos = 0
    /\ step = 0
    /\ position_list_index = 0
    /\ output_file = QueryPath
    /\ yielded = <<>>
    /\ output_list = <<>>
    /\ process_list = <<>>
    /\ state = <<>>
    /\ returncode = <<>>
    /\ exitcode = <<>>
    /\ wrote = <<>>
    /\ out_of_order = FALSE
    /\ start_index = 0
    /\ join_index = 0
    /\ combine_index = 0
    /\ combine_inputs = <<>>
    /\ wopen = {}
    /\ ropen = {}
    /\ touched = {}
    /\ main_exit = -1
    /\ failure = "none"
    /\ missing_tools = {}
    /\ makeblastdb_returncodes = <<>>
    /\ allocated = <<>>

Next ==
    \/ CheckTools
    \/ PrepareTarget
    \/ BuildCommand
    \/ ScanLine
    \/ SplitOpen
    \/ SplitWrite
    \/ ForBody
    \/ SplitResume
    \/ SplitReturn
    \/ StartProcess
    \/ StartLoopEnd
    \/ JoinProcess
    \/ JoinLoopEnd
    \/ Cleanup
    \/ CombineOpen
    \/ CombineInputOpen
    \/ CombineCopy
    \/ CombineClose
    \/ \E i \in 1..Len(process_list) : Worker(i)

Init == InitFrom(FastaFiles(MaxRecords), {TRUE})

Spec == Init /\ [][Next]_vars

\* The runs on every short query file, byte by byte.
InitShort == InitFrom(FilesUpTo(MaxShortLen), BOOLEAN)

\* The main process and every started worker are operating-system processes
\* that keep running, so a step that stays possible is eventually taken.
FairSpec == InitShort /\ [][Next]_vars /\ WF_vars(Next)

\* ------------------------------------------------------ records of a file
\* The data model's records, defined on the bytes and not by the scan: a
\* record starts at every line start whose byte is the delimiter.
IsLineStart(content, p) == p = 0 \/ content[p] = "\n"

RecordStarts(content) ==
    {p \in 0..(Len(content) - 1) : IsLineStart(content, p) /\ content[p + 1] = ">"}

RecordCount(content) == Cardinality(RecordStarts(content))

Minimum(a, b) == IF a < b THEN a ELSE b

\* The bytes from the first record start to the end of the file.
RecordBytes(content) ==
    IF RecordStarts(content) = {} THEN <<>>
    ELSE LET first == CHOOSE p \in RecordStarts(content) :
                          \A q \in RecordStarts(content) : p <= q
         IN  SubSeq(content, first + 1, Len(content))

RECURSIVE ConcatFiles(_, _)
ConcatFiles(dir, paths) ==
    IF paths = <<>> THEN <<>>
    ELSE dir[Head(paths)] \o ConcatFiles(dir, Tail(paths))

IsPrefix(s, t) == Len(s) <= Len(t) /\ SubSeq(t, 1, Len(s)) = s

QueryRecords == RecordCount(fs[QueryPath])

SplitFinished == pc = "start"

\* Every shard but the last holds k records, the last holds 1..k.
ShardRecordsAre(k) ==
    \A i \in 1..Len(yielded) :
        LET r == RecordCount(fs[yielded[i]])
        IN  IF i < Len(yielded) THEN r = k ELSE r >= 1 /\ r <= k

\* C2 as stated: with R >= 1 records and N threads, split_fasta produces
\* exactly min(N, R) shards of ceil(R/N) records each, the last one 1..ceil(R/N).
C2_Original ==
    (SplitFinished /\ QueryRecords >= 1) =>
        /\ Len(yielded) = Minimum(threads, QueryRecords)
        /\ ShardRecordsAre(ceil(QueryRecords, threads))

\* C2 as amended: with R >= 1 records and N threads, split_fasta produces
\* exactly ceil(R / ceil(R/N)) shards, which is at most min(N, R), each of
\* ceil(R/N) records except the last, which holds between 1 and ceil(R/N).
C2_ShardCount ==
    (SplitFinished /\ QueryRecords >= 1) =>
        /\ Len(yielded) = ceil(QueryRecords, ceil(QueryRecords, threads))
        /\ Len(yielded) <= Minimum(threads, QueryRecords)
        /\ ShardRecordsAre(ceil(QueryRecords, threads))

C2_Witness ==
    /\ SplitFinished
    /\ QueryRecords = 4
    /\ threads = 3
    /\ Len(yielded) = 2

\* C3: for R >= 0 records and N >= 1, at most N shards are produced, at
\* most R when R < N, and every shard produced holds at least one whole record.
C3_AtMostNShards ==
    /\ Len(yielded) <= threads
    /\ Len(yielded) <= QueryRecords
    /\ \A i \in 1..Len(yielded) :
          /\ RecordCount(fs[yielded[i]]) >= 1
          /\ fs[yielded[i]] # <<>>
    /\ SplitFinished =>
          (Len(yielded) = 0 <=> QueryRecords = 0)

C3_Witness ==
    /\ SplitFinished
    /\ QueryRecords = 2
    /\ threads = 3
    /\ Len(yielded) = 2

\* C4: the shard files concatenated in production order are, while the split
\* runs, a prefix of the query's bytes from its first record line on, and
\* exactly those bytes once the split has finished.
C4_RoundTrip ==
    /\ IsPrefix(ConcatFiles(fs, yielded), RecordBytes(fs[QueryPath]))
    /\ SplitFinished => ConcatFiles(fs, yielded) = RecordBytes(fs[QueryPath])

C4_Witness ==
    /\ SplitFinished
    /\ Len(yielded) >= 2
    /\ 0 \notin RecordStarts(fs[QueryPath])
    /\ Len(ConcatFiles(fs, yielded)) < Len(fs[QueryPath])

\* C5: a shard starts at the start of a record line and ends at the start of
\* another record line or at the end of the file, and holds exactly the
\* bytes between the two.
C5_RecordAligned ==
    pc \in {"body", "resume"} =>
        LET positions == Positions(position_list, position_list_index, step)
            first == positions[1]
            last == positions[Len(positions)]
            content == fs[QueryPath]
        IN  /\ first \in RecordStarts(content)
            /\ last \in RecordStarts(content) \/ last = Len(content)
            /\ first < last
            /\ fs[yielded[Len(yielded)]] = SubSeq(content, first + 1, last)

C5_Witness ==
    /\ pc = "body"
    /\ Len(yielded) = 2
    /\ LET positions == Positions(position_list, position_list_index, step)
       IN  /\ positions[1] > 0
           /\ positions[Len(positions)] < Len(fs[QueryPath])

\* ------------------------------------------------------------ whole run
Workers == 1..Len(process_list)

RECURSIVE ConcatAll(_)
ConcatAll(seqs) ==
    IF seqs = <<>> THEN <<>> ELSE Head(seqs) \o ConcatAll(Tail(seqs))

Finished == pc = "done"

\* C1 as stated: once the alignment command of any worker has exited
\* non-zero, the main process does not finish with exit code 0.
C1_FailureReported ==
    (\E i \in Workers : returncode[i] = 1) => (~Finished /\ main_exit # 0)

\* C6: when combine returns, the final file is the header line followed by
\* the inputs' contents in list order, it holds exactly one header line, and
\* every input has been deleted; while it runs, the final file is the header
\* followed by the inputs consumed so far, and exactly those are deleted.
C6_CombineConcatenates ==
    /\ pc \in {"combine_loop", "combine_copy", "done"} =>
          /\ fs[OutputPath] =
                 <<HeaderLine>> \o ConcatAll(SubSeq(combine_inputs, 1, combine_index))
          /\ \A i \in 1..Len(output_list) :
                 Exists(fs, output_list[i]) <=> i > combine_index
    /\ Finished =>
          /\ combine_index = Len(output_list)
          /\ Cardinality({j \in 1..Len(fs[OutputPath]) : fs[OutputPath][j] = HeaderLine}) = 1

C6_Witness ==
    /\ Finished
    /\ Len(output_list) = 3
    /\ \A i \in 1..3 : Len(combine_inputs[i]) > BlockSize
    /\ Len(fs[OutputPath]) = 1 + Len(combine_inputs[1]) + Len(combine_inputs[2])
                               + Len(combine_inputs[3])

\* C7: the i-th output path is the one given to the worker of the i-th shard
\* produced, and the final file is the header followed by the output of the
\* run on shard 1, then on shard 2, ..., whatever order the workers exited in.
C7_OutputOrder ==
    /\ Len(output_list) = Len(process_list)
    /\ \A i \in Workers :
          /\ process_list[i].query_file = yielded[i]
          /\ process_list[i].output_file = output_list[i]
    /\ Finished =>
          fs[OutputPath] =
              <<HeaderLine>> \o
              ConcatAll([i \in 1..Len(yielded) |-> Rows(yielded[i], Len(wrote[i]) \div 2)])

C7_Witness ==
    /\ Finished
    /\ out_of_order
    /\ Len(yielded) >= 2
    /\ \A i \in Workers : wrote[i] # <<>>

\* C8: with a query that has no record, once the run has reached the
\* sharding it yields no shard, creates and starts no worker, never fails,
\* and goes on to finish with exit code 0 and a final file that holds only
\* the header line.
NoRecords == RecordCount(fs[QueryPath]) = 0

Sharding == pc \notin {"tools", "target", "command", "failed"}

C8_EmptyInput ==
    /\ [](NoRecords =>
            /\ yielded = <<>>
            /\ process_list = <<>>
            /\ output_list = <<>>
            /\ pc \notin {"write", "body", "resume", "combine_copy"}
            /\ (Sharding => failure = "none" /\ main_exit # 1)
            /\ (Finished => main_exit = 0 /\ fs[OutputPath] = <<HeaderLine>>))
    /\ ((NoRecords /\ pc = "scan") ~> (Finished /\ main_exit = 0))

C8_Witness ==
    /\ Finished
    /\ NoRecords
    /\ fs[QueryPath] # <<>>
    /\ fs[OutputPath] = <<HeaderLine>>

\* C9: no worker is joined before every worker has been started, the main
\* process gets past the join loop only when every worker has exited after
\* its alignment command returned, and combine runs only then.
C9_FanOutThenBarrier ==
    /\ join_index > 0 => start_index = Len(process_list)
    /\ pc = "join" => \A i \in Workers : state[i] # "created"
    /\ \A i \in Workers : i <= join_index => state[i] = "exited"
    /\ pc \in {"cleanup", "combine", "combine_loop", "combine_copy", "done"} =>
          /\ join_index = Len(process_list)
          /\ \A i \in Workers :
                state[i] = "exited" /\ returncode[i] \in {0, 1} /\ exitcode[i] \in {0, 1}

C9_Witness ==
    /\ pc = "combine"
    /\ Len(process_list) >= 2
    /\ exitcode[1] = 1
    /\ exitcode[2] = 0
    /\ out_of_order

\* C10: no path is open for writing in two processes at once, a path the
\* main process has open for writing is open in no worker, each shard and
\* each shard output has been touched by its own worker only, and the main
\* process has an output open for reading only after its worker has exited.
Holders(handles, path) == {h[1] : h \in {g \in handles : g[2] = path}}

C10_SingleOwner ==
    /\ \A h \in wopen : Holders(wopen, h[2]) = {h[1]}
    /\ \A h \in wopen : h[1] = Main => Holders(ropen, h[2]) \subseteq {Main}
    /\ \A t \in touched :
          /\ t[1] \in Workers
          /\ t[2] \in {process_list[t[1]].query_file, process_list[t[1]].output_file}
    /\ \A i \in Workers, j \in Workers :
          i # j =>
             {process_list[i].query_file, process_list[i].output_file}
                \cap {process_list[j].query_file, process_list[j].output_file} = {}
    /\ \A i \in Workers :
          state[i] = "exited" =>
             /\ <<i, process_list[i].query_file>> \in touched
             /\ <<i, process_list[i].output_file>> \in touched
    /\ \A h \in ropen :
          h[1] = Main =>
             \E i \in Workers : process_list[i].output_file = h[2] /\ state[i] = "exited"

C10_Witness ==
    /\ \E i \in Workers, j \in Workers :
          /\ i # j
          /\ <<i, process_list[i].output_file>> \in wopen
          /\ <<j, process_list[j].output_file>> \in wopen
    /\ \E i \in Workers : state[i] = "exited"

\* ------------------------------------------------- startup and transients
Range(seq) == {seq[i] : i \in 1..Len(seq)}

Distinct(seq) == \A i \in 1..Len(seq), j \in 1..Len(seq) : i # j => seq[i] # seq[j]

BeforeSharding == pc \in {"tools", "target", "command"}

Combining == pc \in {"combine", "combine_loop", "combine_copy", "done"}

TemporaryFiles == {p \in DOMAIN fs : p[1] = "tmp"}

\* C11 as stated: command construction completes for each of the five
\* functions, and the command of tblastn carries -db_gencode.
C11_CommandBuilt ==
    /\ failure # "TypeError"
    /\ (function = "tblastn" /\ ~BeforeSharding /\ pc # "failed") =>
          "-db_gencode" \in Range(command)

\* C12: when a tool path is unset or not executable the run has failed with
\* ToolMissing and a non-zero exit code, and no temporary file has been
\* allocated, no tool has been run, no shard or process has been created
\* and no output written.
C12_ToolMissingAtStartup ==
    missing_tools # {} =>
        /\ pc = "failed"
        /\ failure = "ToolMissing"
        /\ main_exit = 1
        /\ allocated = <<>>
        /\ TemporaryFiles \subseteq {StalePath}
        /\ makeblastdb_returncodes = <<>>
        /\ yielded = <<>>
        /\ process_list = <<>>
        /\ ~Exists(fs, OutputPath)

C12_Witness ==
    /\ pc = "failed"
    /\ missing_tools = {"tblastx"}
    /\ function = "blastn"
    /\ Exists(fs, TargetPath)

\* C13: a target that is a readable file is indexed by exactly one
\* makeblastdb run, which has returned before any sharding, and no other
\* target is indexed; when the run returns non-zero the main process has
\* failed, no shard or process exists and the final output is not written.
C13_IndexOnceThenShard ==
    /\ Len(makeblastdb_returncodes) <= 1
    /\ (pc \notin {"tools", "target"} /\ failure # "ToolMissing") =>
          Len(makeblastdb_returncodes) = (IF Exists(fs, TargetPath) THEN 1 ELSE 0)
    /\ (~BeforeSharding /\ pc # "failed" /\ Exists(fs, TargetPath)) =>
          makeblastdb_returncodes = <<0>>
    /\ (makeblastdb_returncodes # <<>> /\ makeblastdb_returncodes[1] # 0) =>
          /\ pc = "failed"
          /\ failure = "makeblastdb"
          /\ main_exit = 1
          /\ position_list = <<>>
          /\ yielded = <<>>
          /\ process_list = <<>>
          /\ Len(allocated) = 1
          /\ ~Exists(fs, OutputPath)

C13_Witness ==
    /\ pc = "failed"
    /\ makeblastdb_returncodes = <<1>>
    /\ RecordCount(fs[QueryPath]) >= 2

\* C14: the paths make_file has handed out are pairwise distinct, so the
\* database prefix, the shard inputs and the shard outputs share no path,
\* and each one named no file of the directory when it was handed out.
C14_UniquePaths ==
    /\ [](/\ Distinct(allocated)
          /\ Range(yielded) \cap Range(output_list) = {}
          /\ Range(yielded) \cup Range(output_list) \subseteq Range(allocated)
          /\ makeblastdb_marker =>
                /\ allocated[1] \notin Range(yielded) \cup Range(output_list)
                /\ (pc # "failed" /\ pc # "target") => target = allocated[1])
    /\ [][allocated' # allocated =>
             /\ Len(allocated') = Len(allocated) + 1
             /\ SubSeq(allocated', 1, Len(allocated)) = allocated
             /\ ~Exists(fs, allocated'[Len(allocated')])
             /\ Exists(fs', allocated'[Len(allocated')])]_vars

C14_Witness ==
    /\ Len(allocated) = 7
    /\ makeblastdb_marker
    /\ Exists(fs, StalePath)
    /\ StalePath \notin Range(allocated)

\* C15: a step that deletes a shard input is the end of the worker that was
\* given that shard, with its alignment command returning 0; the end of a
\* worker deletes nothing but its own shard, and when its command returned
\* non-zero it deletes nothing and leaves its shard as it was.
WorkerEnds(i) == state[i] = "tool" /\ state'[i] = "exited"

C15_ShardDeletedByOwner ==
    /\ [][LET deleted == (DOMAIN fs) \ (DOMAIN fs')
          IN  /\ \A p \in deleted \cap Range(yielded) :
                    \E i \in Workers :
                       /\ process_list[i].query_file = p
                       /\ WorkerEnds(i)
                       /\ returncode'[i] = 0
              /\ \A i \in Workers :
                    WorkerEnds(i) =>
                       /\ deleted \subseteq {process_list[i].query_file}
                       /\ returncode'[i] = 0 => deleted = {process_list[i].query_file}
                       /\ returncode'[i] # 0 =>
                             /\ deleted = {}
                             /\ fs'[process_list[i].query_file] = fs[process_list[i].query_file]
                             /\ fs'[process_list[i].output_file] = wrote'[i]]_vars
    /\ [](\A i \in Workers :
             state[i] = "exited" =>
                (Exists(fs, process_list[i].query_file) <=> returncode[i] # 0))

C15_Witness ==
    /\ Finished
    /\ Len(process_list) >= 2
    /\ returncode[1] = 1
    /\ returncode[2] = 0
    /\ Exists(fs, process_list[1].query_file)
    /\ ~Exists(fs, process_list[2].query_file)

\* C16: the files of a database the run built exist from its build until
\* every worker has been joined, in particular while any worker runs, and
\* none is left when combine starts; when no database was built the cleanup
\* step changes no file and the target's files stay.
DatabaseFiles(prefix) == {p \in DOMAIN fs : StartsWith(p, prefix)}

C16_DatabaseOutlivesWorkers ==
    /\ [](makeblastdb_marker =>
            /\ (~Combining /\ pc \notin {"target", "failed"}) =>
                  \A e \in DbExts : Exists(fs, target \o <<e>>)
            /\ (\E i \in Workers : state[i] \in {"started", "tool"}) =>
                  \A e \in DbExts : Exists(fs, target \o <<e>>)
            /\ Combining =>
                  /\ DatabaseFiles(target) = {}
                  /\ \A i \in Workers : i <= join_index /\ state[i] = "exited")
    /\ [](~Exists(fs, TargetPath) =>
            /\ ~makeblastdb_marker
            /\ \A e \in DbExts : Exists(fs, TargetPath \o <<e>>))
    /\ [][(pc = "cleanup" /\ ~makeblastdb_marker) => fs' = fs]_vars

C16_Witness ==
    /\ pc = "combine"
    /\ makeblastdb_marker
    /\ Len(process_list) >= 2
    /\ DatabaseFiles(target) = {}
    /\ Exists(fs, StalePath)

\* C17: after a run in which makeblastdb and every alignment command
\* returned 0, no shard input, no shard output and no file under the
\* database prefix exists, and the directory holds the files it started
\* with and the final output.
AllToolsSucceeded ==
    /\ \A k \in 1..Len(makeblastdb_returncodes) : makeblastdb_returncodes[k] = 0
    /\ \A i \in Workers : returncode[i] = 0

C17_NoTransientLeft ==
    (Finished /\ AllToolsSucceeded) =>
        /\ \A k \in 1..Len(allocated) : ~Exists(fs, allocated[k])
        /\ \A i \in Workers :
              /\ ~Exists(fs, process_list[i].query_file)
              /\ ~Exists(fs, process_list[i].output_file)
        /\ makeblastdb_marker => DatabaseFiles(target) = {}
        /\ TemporaryFiles \subseteq {StalePath}
        /\ Exists(fs, OutputPath)
        /\ (DOMAIN fs) \ {OutputPath} \subseteq
              {QueryPath, TargetPath, StalePath} \cup {TargetPath \o <<e>> : e \in DbExts}

C17_Witness ==
    /\ Finished
    /\ AllToolsSucceeded
    /\ makeblastdb_marker
    /\ Len(process_list) = 3
    /\ Len(allocated) = 7

\* C18: a worker has been started only after split_fasta has returned, with
\* every shard written and an output path allocated for each, and at every
\* allocation all the paths allocated before still name a file.
C18_EagerSharding ==
    /\ []((\E i \in Workers : state[i] # "created") =>
            /\ pc \notin {"scan", "split", "write", "body", "resume"}
            /\ ~BeforeSharding
            /\ SplitStops(Positions(position_list, position_list_index, step))
            /\ Len(yielded) = Len(process_list)
            /\ Len(output_list) = Len(process_list)
            /\ Range(yielded) \cup Range(output_list) \subseteq Range(allocated))
    /\ [][allocated' # allocated =>
             /\ \A k \in 1..Len(allocated) : Exists(fs, allocated[k])
             /\ \A i \in Workers : state[i] = "created"]_vars

C18_Witness ==
    /\ pc = "start"
    /\ start_index = 1
    /\ state[1] = "exited"
    /\ returncode[1] = 0
    /\ Len(process_list) = 3
    /\ state[2] = "created"
    /\ Len(allocated) >= 6

====
